---- MODULE Spec2Model ----
(***************************************************************************)
(* Verification model of the hexmap crate: the cube / axial coordinate     *)
(* algebra, the shape generators (line, ring, area, adjacent), the sparse  *)
(* HexMap and the Dijkstra search of HexMap::find_path.                     *)
(*                                                                         *)
(* f32 costs are scaled by CostScale (0.5 -> 1, 2.0 -> 4); all sums of the  *)
(* modelled costs are exact in f32, so integer arithmetic is faithful.      *)
(* Fractional coordinates are exact rationals num/den; den = 0 is the NaN   *)
(* that 0.0/0.0 produces.                                                   *)
(***************************************************************************)
EXTENDS Integers, Sequences, FiniteSets, TLC

(***************************************************************************)
(* Bounds of the model                                                     *)
(***************************************************************************)
\* number of lattice cells (in spiral order around the origin) that inserts,
\* start and destination are drawn from
GridCells == 7
\* largest number of populated tiles a map is grown to by single inserts
MaxTiles == 4
\* largest number of Expensive tiles a map is grown to by single inserts
MaxExpensive == 1
\* largest radius handed to insert_area
MaxAreaRadius == 2
\* the generators' coordinates lie within this distance of the origin
CoordRadius == 3
\* largest radius handed to ring
MaxRingRadius == 3
\* an f32 error is 1/F32ErrorScale of the step between two interpolated values
F32ErrorScale == 1024
\* the fractional coordinates handed to round are num/den with
\* den in 1..MaxDenominator and num in -MaxNumerator..MaxNumerator
MaxDenominator == 4
MaxNumerator == 8
\* largest number of operations in the recorded history of a map
MaxOps == 3
\* number of lattice cells (in spiral order) that a recorded insert_area is centered on
AreaCenters == 2
\* number of lattice cells (in spiral order) the PathMaps handed to the
\* operations of PathMap have nodes at, and the largest total cost of a node
PathMapCells == 2
MaxNodeCost == 2
\* number of lattice cells (in spiral order) of the maps find_path's termination
\* is checked on
TerminationCells == 4

(***************************************************************************)
(* Values                                                                  *)
(***************************************************************************)
\* Option::None
None == [none |-> TRUE]

\* a cube-coordinate constructor that panicked
InvalidCoordinate == [panic |-> "InvalidCoordinate"]

Abs(x) == IF x < 0 THEN -x ELSE x

(***************************************************************************)
(* AxialCoords                                                             *)
(***************************************************************************)
AxialNew(q, r) == [q |-> q, r |-> r]

AxialAdd(a, b) == [q |-> a.q + b.q, r |-> a.r + b.r]

AxialSub(a, b) == [q |-> a.q - b.q, r |-> a.r - b.r]

AxialMul(a, n) == [q |-> a.q * n, r |-> a.r * n]

\* AxialFromCube with the two components swapped
AxialFromCube_Swapped(c) == [q |-> c.r, r |-> c.q]

AxialFromCube(c) == [q |-> c.q, r |-> c.r]

AxialZERO == [q |-> 0, r |-> 0]
AxialQ == [q |-> 1, r |-> 0]
AxialR == [q |-> 0, r |-> 1]
AxialS == [q |-> -1, r |-> 1]

(***************************************************************************)
(* CubeCoords                                                              *)
(***************************************************************************)
\* is_valid that leaves s out of the sum
is_valid_IgnoresS(c) == c.q + c.r = 0

is_valid(c) == c.q + c.r + c.s = 0

\* CubeNew without the validity test
CubeNew_NeverPanics(q, r, s) == [q |-> q, r |-> r, s |-> s]

CubeNew(q, r, s) ==
    LET coords == [q |-> q, r |-> r, s |-> s]
    IN  IF ~is_valid(coords) THEN InvalidCoordinate ELSE coords

CubeZERO == [q |-> 0, r |-> 0, s |-> 0]

CubeFromAxial(a) == [q |-> a.q, r |-> a.r, s |-> (-a.q) - a.r]

CubeAdd(a, b) == CubeFromAxial(AxialAdd(AxialFromCube(a), AxialFromCube(b)))

\* CubeSub that leaves the s component of a as it is
CubeSub_KeepsS(a, b) == [q |-> a.q - b.q, r |-> a.r - b.r, s |-> a.s]

CubeSub(a, b) == CubeFromAxial(AxialSub(AxialFromCube(a), AxialFromCube(b)))

CubeMul(a, n) == CubeNew(a.q * n, a.r * n, a.s * n)

CubeNeg(a) == CubeNew(-a.q, -a.r, -a.s)

\* distance without the absolute value of the q component
distance_SignedQ(a, b) ==
    LET vec == CubeSub(a, b)
    IN  (vec.q + Abs(vec.r) + Abs(vec.s)) \div 2

distance(a, b) ==
    LET vec == CubeSub(a, b)
    IN  (Abs(vec.q) + Abs(vec.r) + Abs(vec.s)) \div 2

AxialDistance(a, b) == distance(CubeFromAxial(a), CubeFromAxial(b))

\* CubeAdjacent with the last direction left out
CubeAdjacent_FiveDirections(center) ==
    << CubeAdd(center, CubeNew(0, -1, 1)),
       CubeAdd(center, CubeNew(1, -1, 0)),
       CubeAdd(center, CubeNew(1, 0, -1)),
       CubeAdd(center, CubeNew(0, 1, -1)),
       CubeAdd(center, CubeNew(-1, 1, 0)) >>

CubeAdjacent(center) ==
    << CubeAdd(center, CubeNew(0, -1, 1)),
       CubeAdd(center, CubeNew(1, -1, 0)),
       CubeAdd(center, CubeNew(1, 0, -1)),
       CubeAdd(center, CubeNew(0, 1, -1)),
       CubeAdd(center, CubeNew(-1, 1, 0)),
       CubeAdd(center, CubeNew(-1, 0, 1)) >>

(***************************************************************************)
(* Shape generators                                                        *)
(***************************************************************************)
\* CubeCoords::ring: element k (1-based) is pushed by loop iteration
\* i = (k-1) \div 6 as its ((k-1) % 6 + 1)-th push
CubeRing(center, radius) ==
    IF radius = 0 THEN << center >>
    ELSE LET corner_q == CubeAdd(center, CubeMul(CubeNew(0, -1, 1), radius))
             corner_r == CubeAdd(center, CubeMul(CubeNew(1, 0, -1), radius))
             corner_s == CubeAdd(center, CubeMul(CubeNew(-1, 1, 0), radius))
             push(i, j) ==
                 CASE j = 0 -> CubeAdd(corner_q, CubeMul(CubeNew(1, 0, -1), i))
                   [] j = 1 -> CubeSub(CubeNeg(corner_q), CubeMul(CubeNew(1, 0, -1), i))
                   [] j = 2 -> CubeAdd(corner_r, CubeMul(CubeNew(-1, 1, 0), i))
                   [] j = 3 -> CubeSub(CubeNeg(corner_r), CubeMul(CubeNew(-1, 1, 0), i))
                   [] j = 4 -> CubeAdd(corner_s, CubeMul(CubeNew(0, -1, 1), i))
                   [] j = 5 -> CubeSub(CubeNeg(corner_s), CubeMul(CubeNew(0, -1, 1), i))
         IN  [k \in 1..(6 * radius) |-> push((k - 1) \div 6, (k - 1) % 6)]

\* concatenation of ring(center, i) for i in lo..(hi-1), as the area loops
\* append them
RECURSIVE CubeRingsFrom(_, _, _)
CubeRingsFrom(center, lo, hi) ==
    IF lo >= hi THEN << >>
    ELSE CubeRing(center, lo) \o CubeRingsFrom(center, lo + 1, hi)

\* CubeCoords::area (the override of the trait's default): for i in 0..radius
CubeArea(center, radius) == CubeRingsFrom(center, 0, radius)

\* AxialRing whose third edge steps along +R instead of -R
AxialRing_WrongEdge(center, radius) ==
    IF radius = 0 THEN << center >>
    ELSE LET push(i, j) ==
                 CASE j = 0 -> AxialAdd(AxialAdd(center, AxialMul(AxialQ, radius)), AxialMul(AxialS, i))
                   [] j = 1 -> AxialSub(AxialAdd(center, AxialMul(AxialR, radius)), AxialMul(AxialQ, i))
                   [] j = 2 -> AxialAdd(AxialAdd(center, AxialMul(AxialS, radius)), AxialMul(AxialR, i))
                   [] j = 3 -> AxialSub(AxialSub(center, AxialMul(AxialQ, radius)), AxialMul(AxialS, i))
                   [] j = 4 -> AxialAdd(AxialSub(center, AxialMul(AxialR, radius)), AxialMul(AxialQ, i))
                   [] j = 5 -> AxialAdd(AxialSub(center, AxialMul(AxialS, radius)), AxialMul(AxialR, i))
         IN  [k \in 1..(6 * radius) |-> push((k - 1) \div 6, (k - 1) % 6)]

\* AxialCoords::ring of src/coords/axial.rs (built directly on axial offsets)
AxialRing(center, radius) ==
    IF radius = 0 THEN << center >>
    ELSE LET push(i, j) ==
                 CASE j = 0 -> AxialAdd(AxialAdd(center, AxialMul(AxialQ, radius)), AxialMul(AxialS, i))
                   [] j = 1 -> AxialSub(AxialAdd(center, AxialMul(AxialR, radius)), AxialMul(AxialQ, i))
                   [] j = 2 -> AxialSub(AxialAdd(center, AxialMul(AxialS, radius)), AxialMul(AxialR, i))
                   [] j = 3 -> AxialSub(AxialSub(center, AxialMul(AxialQ, radius)), AxialMul(AxialS, i))
                   [] j = 4 -> AxialAdd(AxialSub(center, AxialMul(AxialR, radius)), AxialMul(AxialQ, i))
                   [] j = 5 -> AxialAdd(AxialSub(center, AxialMul(AxialS, radius)), AxialMul(AxialR, i))
         IN  [k \in 1..(6 * radius) |-> push((k - 1) \div 6, (k - 1) % 6)]

\* AxialCoords::ring of src/coords/axial_coords.rs (delegates to CubeCoords::ring)
AxialRingViaCube(center, radius) ==
    LET cube_coord_ring == CubeRing(CubeFromAxial(center), radius)
    IN  [k \in 1..Len(cube_coord_ring) |-> AxialFromCube(cube_coord_ring[k])]

\* HexCoords::area, the trait's default: for i in 0..radius+1
RECURSIVE AxialRingsFrom(_, _, _)
AxialRingsFrom(center, lo, hi) ==
    IF lo >= hi THEN << >>
    ELSE AxialRing(center, lo) \o AxialRingsFrom(center, lo + 1, hi)

AxialArea(center, radius) == AxialRingsFrom(center, 0, radius + 1)

\* the elements of a sequence
Range(seq) == {seq[k] : k \in 1..Len(seq)}

(***************************************************************************)
(* f32 values: the rational num/den, den > 0; den = 0 is NaN.  A value     *)
(* computed by an inexact f32 operation carries an error of err units of   *)
(* 1/(den * F32ErrorScale), err in F32Errors: far less than the distance   *)
(* between two distinct values of the model.                               *)
(***************************************************************************)
F32Errors == {-1, 0, 1}

F32FromInt(n) == [num |-> n, den |-> 1]

IsNaN(x) == x.den = 0

\* a > b on f32: false as soon as one side is NaN
F32Greater(a, b) == ~IsNaN(a) /\ ~IsNaN(b) /\ a.num * b.den > b.num * a.den

\* F32AbsDiff without .abs(): the signed difference, kept as a fraction
F32AbsDiff_Signed(x, n) == [num |-> x.num - n * x.den, den |-> x.den]

\* (x - n as f32).abs()
F32AbsDiff(x, n) == [num |-> Abs(x.num - n * x.den), den |-> x.den]

\* x.round() as isize: half-way cases round away from zero; NaN casts to 0
F32Round(x) ==
    IF IsNaN(x) THEN 0
    ELSE IF x.num >= 0
         THEN (2 * x.num + x.den) \div (2 * x.den)
         ELSE -((2 * (-x.num) + x.den) \div (2 * x.den))

\* i as f32 / n as f32, kept as the fraction i/n (0/0 is NaN)
F32Div(i, n) == [num |-> i, den |-> n]

\* (x as f32).lerp(y as f32, t): x + (y - x) * t, with the error err
F32Lerp(x, y, t, err) ==
    [num |-> (x * (t.den - t.num) + y * t.num) * F32ErrorScale + err,
     den |-> t.den * F32ErrorScale]

\* the panic at the end of CubeCoords::round
RoundingFailure == [panic |-> "RoundingFailure"]

\* CubeCoords::round with a correction that always recomputes s
CubeRound_AlwaysRecomputesS(q, r, s) ==
    LET output == [q |-> F32Round(q), r |-> F32Round(r), s |-> F32Round(s)]
    IN  IF ~is_valid(output)
        THEN [output EXCEPT !.s = (-output.q) - output.r]
        ELSE output

CubeRound(q, r, s) ==
    LET output == [q |-> F32Round(q), r |-> F32Round(r), s |-> F32Round(s)]
    IN  IF ~is_valid(output)
        THEN LET diff_q == F32AbsDiff(q, output.q)
                 diff_r == F32AbsDiff(r, output.r)
                 diff_s == F32AbsDiff(s, output.s)
                 corrected ==
                     IF F32Greater(diff_q, diff_r) /\ F32Greater(diff_q, diff_s)
                     THEN [output EXCEPT !.q = (-output.r) - output.s]
                     ELSE IF F32Greater(diff_r, diff_s)
                          THEN [output EXCEPT !.r = (-output.q) - output.s]
                          ELSE [output EXCEPT !.s = (-output.q) - output.r]
             IN  IF ~is_valid(corrected) THEN RoundingFailure ELSE corrected
        ELSE output

\* Lerp for CubeCoords; err is the triple of the errors of the three axes
CubeLerp(self, other, t, err) ==
    LET q == F32Lerp(self.q, other.q, t, err[1])
        r == F32Lerp(self.r, other.r, t, err[2])
        s == F32Lerp(self.s, other.s, t, err[3])
    IN  CubeRound(q, r, s)

\* no generator call is in progress
NoCall == [op |-> "none"]

(***************************************************************************)
(* State                                                                   *)
(***************************************************************************)
VARIABLES
    map,          \* HexMap::map, a function from the populated coordinates to tiles
    pc,           \* "idle", "search" (inside find_path's loop) or "done"
    start,        \* find_path's arguments
    destination,
    cost_fn,      \* the name of the cost function passed to find_path
    pathfinder,   \* find_path's PathMap: coords_to_search, searched_coords, nodes
    result,       \* find_path's return value
    shape,        \* the call of a shape generator: its arguments, loop state and output
    history,      \* the operations called on the map so far, and the map before the last
    invocations,  \* the calls of cost_fn made by the last eval_coords of find_path
    selected      \* the iterations of find_path's loop body so far, and the total
                  \* cost of the node the last one selected

vars == << map, pc, start, destination, cost_fn, pathfinder, result, shape,
          history, invocations, selected >>

\* the state of the map and of find_path
mapVars == << map, pc, start, destination, cost_fn, pathfinder, result, history,
             invocations, selected >>

Some(x) == [some |-> x]

\* the lattice cells the model draws coordinates from: a spiral around the origin
Cells ==
    LET spiral == AxialArea(AxialZERO, 2)
    IN  [k \in 1..GridCells |-> CubeFromAxial(spiral[k])]

Universe == Range(Cells)

\* the tiles of the map tests
PathTestTile == {"Cheap", "Expensive"}

\* f32 costs are multiplied by CostScale to make them integers
CostScale == 2

(***************************************************************************)
(* HexMap                                                                  *)
(***************************************************************************)
HexMapNew == << >>

HexMapGet(m, coords) == IF coords \in DOMAIN m THEN Some(m[coords]) ELSE None

\* HexMapInsert that keeps the tile of a coordinate that is populated already
HexMapInsert_KeepsExisting(m, coords, tile) ==
    [c \in (DOMAIN m) \cup {coords} |-> IF c \in DOMAIN m THEN m[c] ELSE tile]

HexMapInsert(m, coords, tile) ==
    [c \in (DOMAIN m) \cup {coords} |-> IF c = coords THEN tile ELSE m[c]]

\* insert_area's loop over the area, from its k-th element on
RECURSIVE InsertAll(_, _, _, _)
InsertAll(m, area, k, tile) ==
    IF k > Len(area) THEN m
    ELSE InsertAll(HexMapInsert(m, area[k], tile), area, k + 1, tile)

HexMapInsertArea(m, center, radius, tile) ==
    LET area == CubeArea(center, radius)
    IN  InsertAll(m, area, 1, tile)

\* the cost function of the map tests: 0.5 into a Cheap tile, 2.0 into an
\* Expensive one; map.get(end).unwrap() panics on an unpopulated end
tile_cost(source, end, m) ==
    IF end \notin DOMAIN m THEN [panic |-> "unwrap on None"]
    ELSE CASE m[end] = "Cheap" -> 1
           [] m[end] = "Expensive" -> 4

\* a caller's closure |_,_,_| 0.0: the least cost a non-negative function returns
free_cost(source, end, m) == 0

\* a caller's closure that reads the tile the move leaves: 2.0 out of an
\* Expensive tile, 0.5 out of every other coordinate
exit_cost(source, end, m) ==
    IF HexMapGet(m, source) = Some("Expensive") THEN 4 ELSE 1

\* the cost functions find_path is called with
CostFns == {"tile_cost", "free_cost"}

\* the cost functions whose cost depends on the coordinate the move leaves,
\* with free_cost for the moves of equal total cost
EdgeCostFns == {"exit_cost", "free_cost"}

\* the call cost_fn(source, dest, map) of the function named f
Apply(f, source, end, m) ==
    CASE f = "tile_cost" -> tile_cost(source, end, m)
      [] f = "free_cost" -> free_cost(source, end, m)
      [] f = "exit_cost" -> exit_cost(source, end, m)

(***************************************************************************)
(* PathMap                                                                 *)
(***************************************************************************)
PathNodeDefault == [total_cost |-> 0, prev_coords |-> None]

PathMapDefault == [coords_to_search |-> {}, searched_coords |-> {}, nodes |-> << >>]

get_node(pm, coords) ==
    IF coords \in DOMAIN pm.nodes THEN Some(pm.nodes[coords]) ELSE None

\* add_node without coords_to_search.insert
add_node_OutOfFrontier(pm, coords, node) ==
    [pm EXCEPT !.nodes = [c \in (DOMAIN @) \cup {coords} |->
                              IF c = coords THEN node ELSE @[c]]]

add_node(pm, coords, node) ==
    [pm EXCEPT !.coords_to_search = @ \cup {coords},
               !.nodes = [c \in (DOMAIN @) \cup {coords} |->
                              IF c = coords THEN node ELSE @[c]]]

\* starting_from that seeds the start with a total cost of 0.5
starting_from_CostlyStart(pm, start_coords) ==
    add_node(pm, start_coords, [total_cost |-> 1, prev_coords |-> None])

starting_from(pm, start_coords) == add_node(pm, start_coords, PathNodeDefault)

insert_node(pm, coords, new_node) ==
    IF get_node(pm, coords) # None
    THEN IF new_node.total_cost < pm.nodes[coords].total_cost
         THEN [pm EXCEPT !.nodes[coords] = new_node]
         ELSE pm
    ELSE add_node(pm, coords, new_node)

\* eval_move that also replaces a node on an equal candidate cost
eval_move_ReplacesOnEqual(pm, source, dest, cost) ==
    IF dest \in DOMAIN pm.nodes
    THEN IF cost <= pm.nodes[dest].total_cost
         THEN [pm EXCEPT !.nodes[dest] = [total_cost |-> cost, prev_coords |-> Some(source)]]
         ELSE pm
    ELSE insert_node(pm, dest, [total_cost |-> cost, prev_coords |-> Some(source)])

eval_move(pm, source, dest, cost) ==
    IF dest \in DOMAIN pm.nodes
    THEN IF cost < pm.nodes[dest].total_cost
         THEN [pm EXCEPT !.nodes[dest] = [total_cost |-> cost, prev_coords |-> Some(source)]]
         ELSE pm
    ELSE insert_node(pm, dest, [total_cost |-> cost, prev_coords |-> Some(source)])

\* EvalNeighbors with the source's total cost left out of move_cost
RECURSIVE EvalNeighbors_ForgetsSourceCost(_, _, _, _, _, _, _)
EvalNeighbors_ForgetsSourceCost(pm, source, source_node, adjacent_coords, k, m, f) ==
    IF k > Len(adjacent_coords) THEN pm
    ELSE LET neighbor_coord == adjacent_coords[k]
         IN  IF HexMapGet(m, neighbor_coord) # None
             THEN LET move_cost == Apply(f, source, neighbor_coord, m)
                  IN  EvalNeighbors_ForgetsSourceCost(
                          eval_move(pm, source, neighbor_coord, move_cost),
                          source, source_node, adjacent_coords, k + 1, m, f)
             ELSE EvalNeighbors_ForgetsSourceCost(
                      pm, source, source_node, adjacent_coords, k + 1, m, f)

\* eval_coords' loop over adjacent_coords, from its k-th element on
RECURSIVE EvalNeighbors(_, _, _, _, _, _, _)
EvalNeighbors(pm, source, source_node, adjacent_coords, k, m, f) ==
    IF k > Len(adjacent_coords) THEN pm
    ELSE LET neighbor_coord == adjacent_coords[k]
         IN  IF HexMapGet(m, neighbor_coord) # None
             THEN LET move_cost == source_node.total_cost + Apply(f, source, neighbor_coord, m)
                  IN  EvalNeighbors(eval_move(pm, source, neighbor_coord, move_cost),
                                    source, source_node, adjacent_coords, k + 1, m, f)
             ELSE EvalNeighbors(pm, source, source_node, adjacent_coords, k + 1, m, f)

eval_coords(pm, source, m, f) ==
    LET adjacent_coords == CubeAdjacent(source)
        source_node == pm.nodes[source]
    IN  EvalNeighbors(pm, source, source_node, adjacent_coords, 1, m, f)

\* Invoked without the test of map.get(neighbor_coord)
Invoked_AllNeighbors(source, adjacent_coords, m) ==
    [k \in 1..Len(adjacent_coords) |-> [source |-> source, dest |-> adjacent_coords[k]]]

\* the calls cost_fn(source, neighbor_coord, map) of eval_coords' loop, in order:
\* one for each neighbor_coord that map.get finds a tile at
Invoked(source, adjacent_coords, m) ==
    LET call(neighbor_coord) == [source |-> source, dest |-> neighbor_coord]
        populated(neighbor_coord) == HexMapGet(m, neighbor_coord) # None
        calls == [k \in 1..Len(adjacent_coords) |-> call(adjacent_coords[k])]
    IN  SelectSeq(calls, LAMBDA c : populated(c.dest))

\* TraceBack without the prev_coords test: the start is pushed as well
RECURSIVE TraceBack_KeepsStart(_, _)
TraceBack_KeepsStart(pm, next_coords) ==
    IF next_coords = None THEN << >>
    ELSE LET c == next_coords.some
             node == pm.nodes[c]
         IN  << c >> \o TraceBack_KeepsStart(pm, node.prev_coords)

\* trace_path's loop: the path in push order (destination first)
RECURSIVE TraceBack(_, _)
TraceBack(pm, next_coords) ==
    IF next_coords = None THEN << >>
    ELSE LET c == next_coords.some
             node == pm.nodes[c]
         IN  (IF node.prev_coords # None THEN << c >> ELSE << >>)
                 \o TraceBack(pm, node.prev_coords)

Reverse(seq) == [k \in 1..Len(seq) |-> seq[Len(seq) + 1 - k]]

\* trace_path without path.reverse()
trace_path_Unreversed(pm, dest) == TraceBack(pm, Some(dest))

trace_path(pm, dest) == Reverse(TraceBack(pm, Some(dest)))

\* the orders in which a HashSet's iterator may yield its elements
RECURSIVE IterOrders(_)
IterOrders(S) ==
    IF S = {} THEN {<< >>}
    ELSE UNION {{<< x >> \o rest : rest \in IterOrders(S \ {x})} : x \in S}

\* NextNodeLoop with the comparison turned around: it keeps the costliest node
RECURSIVE NextNodeLoop_PicksCostliest(_, _, _, _, _)
NextNodeLoop_PicksCostliest(pm, order, k, best_coords, lowest_cost) ==
    IF k > Len(order) THEN best_coords
    ELSE LET coords == order[k]
             node == pm.nodes[coords]
         IN  IF best_coords = None \/ node.total_cost > lowest_cost
             THEN NextNodeLoop_PicksCostliest(pm, order, k + 1, Some(coords), node.total_cost)
             ELSE NextNodeLoop_PicksCostliest(pm, order, k + 1, best_coords, lowest_cost)

\* get_next_node's loop over coords_to_search.iter(), from the k-th element on
RECURSIVE NextNodeLoop(_, _, _, _, _)
NextNodeLoop(pm, order, k, best_coords, lowest_cost) ==
    IF k > Len(order) THEN best_coords
    ELSE LET coords == order[k]
             node == pm.nodes[coords]
         IN  IF best_coords = None \/ node.total_cost < lowest_cost
             THEN NextNodeLoop(pm, order, k + 1, Some(coords), node.total_cost)
             ELSE NextNodeLoop(pm, order, k + 1, best_coords, lowest_cost)

\* get_next_node that returns the first coordinate the iterator yields
get_next_node_FirstYielded(pm, order) ==
    IF order = << >> THEN None ELSE Some(order[1])

get_next_node(pm, order) == NextNodeLoop(pm, order, 1, None, 0)

\* set_coords_searched without coords_to_search.remove
set_coords_searched_KeepsFrontier(pm, coords) ==
    [pm EXCEPT !.searched_coords = @ \cup {coords}]

set_coords_searched(pm, coords) ==
    [pm EXCEPT !.coords_to_search = @ \ {coords},
               !.searched_coords = @ \cup {coords}]

(***************************************************************************)
(* Operations                                                              *)
(***************************************************************************)
\* no operation was called on the map yet
\* no iteration of find_path's loop body has run
NoSelection == [iterations |-> 0, total_cost |-> None]

\* one more iteration, which selected next_coords
Select(sel, pm, next_coords) ==
    [iterations |-> sel.iterations + 1,
     total_cost |-> Some(get_node(pm, next_coords).some.total_cost)]

NoHistory == [log |-> << >>, before |-> HexMapNew]

Init ==
    /\ map = HexMapNew
    /\ pc = "idle"
    /\ start = CubeZERO
    /\ destination = CubeZERO
    /\ cost_fn = "tile_cost"
    /\ pathfinder = PathMapDefault
    /\ result = None
    /\ shape = NoCall
    /\ history = NoHistory
    /\ invocations = << >>
    /\ selected = NoSelection

\* the map stays within the bounds on single inserts
WithinBounds(m) ==
    /\ Cardinality(DOMAIN m) <= MaxTiles
    /\ Cardinality({c \in DOMAIN m : m[c] = "Expensive"}) <= MaxExpensive

\* HexMap::insert
Insert(coords, tile) ==
    /\ pc = "idle"
    /\ WithinBounds(HexMapInsert(map, coords, tile))
    /\ map' = HexMapInsert(map, coords, tile)
    /\ UNCHANGED << pc, start, destination, cost_fn, pathfinder, result, shape,
                    history, invocations, selected >>

\* HexMap::insert_area; on a fresh map (as the tests use it) the filled area
\* may exceed the bounds on single inserts
InsertArea(center, radius, tile) ==
    /\ pc = "idle"
    /\ Range(CubeArea(center, radius)) \subseteq Universe
    /\ map = HexMapNew \/ WithinBounds(HexMapInsertArea(map, center, radius, tile))
    /\ map' = HexMapInsertArea(map, center, radius, tile)
    /\ UNCHANGED << pc, start, destination, cost_fn, pathfinder, result, shape,
                    history, invocations, selected >>

\* FindPath that seeds the start only if the map holds a tile for it
FindPath_StartNeedsTile(s, d, f) ==
    /\ pc = "idle"
    /\ f = "free_cost" => \A c \in DOMAIN map : map[c] = "Cheap"
    /\ start' = s
    /\ destination' = d
    /\ cost_fn' = f
    /\ pathfinder' = IF HexMapGet(map, s) # None THEN starting_from(PathMapDefault, s)
                      ELSE PathMapDefault
    /\ pc' = "search"
    /\ invocations' = << >>
    /\ selected' = NoSelection
    /\ UNCHANGED << map, result, shape, history >>

\* HexMap::find_path up to its loop.  free_cost never looks at the tiles, so
\* it is run on the maps of Cheap tiles only: the search is the same on every
\* other map with the same populated coordinates.
FindPath(s, d, f) ==
    /\ pc = "idle"
    /\ f = "free_cost" => \A c \in DOMAIN map : map[c] = "Cheap"
    /\ start' = s
    /\ destination' = d
    /\ cost_fn' = f
    /\ pathfinder' = starting_from(PathMapDefault, s)
    /\ pc' = "search"
    /\ invocations' = << >>
    /\ selected' = NoSelection
    /\ UNCHANGED << map, result, shape, history >>

\* the loop iteration that selects the destination: return the traced path
Found(next_coords) ==
    /\ next_coords # None
    /\ next_coords.some = destination
    /\ result' = Some(trace_path(pathfinder, destination))
    /\ pc' = "done"
    /\ selected' = Select(selected, pathfinder, next_coords.some)
    /\ UNCHANGED << map, start, destination, cost_fn, pathfinder, shape,
                    history, invocations >>

\* Expand without set_coords_searched
Expand_NeverSearched(next_coords) ==
    /\ next_coords # None
    /\ next_coords.some # destination
    /\ pathfinder' = eval_coords(pathfinder, next_coords.some, map, cost_fn)
    /\ invocations' = Invoked(next_coords.some, CubeAdjacent(next_coords.some), map)
    /\ selected' = Select(selected, pathfinder, next_coords.some)
    /\ UNCHANGED << map, pc, start, destination, cost_fn, result, shape, history >>

\* the loop iteration that expands the selected coordinate
Expand(next_coords) ==
    /\ next_coords # None
    /\ next_coords.some # destination
    /\ pathfinder' = set_coords_searched(
                         eval_coords(pathfinder, next_coords.some, map, cost_fn),
                         next_coords.some)
    /\ invocations' = Invoked(next_coords.some, CubeAdjacent(next_coords.some), map)
    /\ selected' = Select(selected, pathfinder, next_coords.some)
    /\ UNCHANGED << map, pc, start, destination, cost_fn, result, shape, history >>

\* Exhausted returning an empty path instead of None
Exhausted_EmptyPath(next_coords) ==
    /\ next_coords = None
    /\ result' = Some(<< >>)
    /\ pc' = "done"
    /\ UNCHANGED << map, start, destination, cost_fn, pathfinder, shape,
                    history, invocations, selected >>

\* the loop ends: get_next_node returned None
Exhausted(next_coords) ==
    /\ next_coords = None
    /\ result' = None
    /\ pc' = "done"
    /\ UNCHANGED << map, start, destination, cost_fn, pathfinder, shape,
                    history, invocations, selected >>

\* NextNodes that yields any coordinate of coords_to_search, whatever its cost
NextNodes_AnyOfFrontier(pm) ==
    IF pm.coords_to_search = {} THEN {None}
    ELSE {Some(c) : c \in pm.coords_to_search}

\* what get_next_node may return, over the iteration orders of the HashSet
NextNodes(pm) == {get_next_node(pm, order) : order \in IterOrders(pm.coords_to_search)}

\* one evaluation of `while let Some(next_coords) = pathfinder.get_next_node()`
\* and of the loop body
Loop ==
    /\ pc = "search"
    /\ \E next_coords \in NextNodes(pathfinder) :
          \/ Found(next_coords)
          \/ Expand(next_coords)
          \/ Exhausted(next_coords)

Next ==
    \/ \E coords \in Universe, tile \in PathTestTile : Insert(coords, tile)
    \/ \E center \in Universe, radius \in 0..MaxAreaRadius, tile \in PathTestTile :
          InsertArea(center, radius, tile)
    \/ \E s \in Universe, d \in Universe, f \in CostFns : FindPath(s, d, f)
    \/ Loop

Spec == Init /\ [][Next]_vars

\* the coordinates of the maps and calls whose termination is checked
TerminationUniverse == {Cells[k] : k \in 1..TerminationCells}

\* insert and find_path over TerminationUniverse
NextTermination ==
    \/ \E coords \in TerminationUniverse, tile \in PathTestTile : Insert(coords, tile)
    \/ \E s \in TerminationUniverse, d \in TerminationUniverse, f \in CostFns :
          FindPath(s, d, f)
    \/ Loop

\* find_path runs on one thread and nothing suspends it: an iteration of its
\* loop that can run does run
SpecTermination == Init /\ [][NextTermination]_vars /\ WF_vars(Loop)

\* the same operations, with find_path called with the cost functions of
\* EdgeCostFns
NextEdgeCosts ==
    \/ \E coords \in Universe, tile \in PathTestTile : Insert(coords, tile)
    \/ \E center \in Universe, radius \in 0..MaxAreaRadius, tile \in PathTestTile :
          InsertArea(center, radius, tile)
    \/ \E s \in Universe, d \in Universe, f \in EdgeCostFns : FindPath(s, d, f)
    \/ Loop

SpecEdgeCosts == Init /\ [][NextEdgeCosts]_vars

(***************************************************************************)
(* The map operations with their history recorded                          *)
(***************************************************************************)
\* HexMap::insert, appended to the history
RecordedInsert(coords, tile) ==
    /\ pc = "idle"
    /\ Len(history.log) < MaxOps
    /\ map' = HexMapInsert(map, coords, tile)
    /\ history' = [log |-> Append(history.log,
                                  [op |-> "insert", coords |-> coords, tile |-> tile]),
                   before |-> map]
    /\ UNCHANGED << pc, start, destination, cost_fn, pathfinder, result, shape, invocations,
                    selected >>

\* the centers of the recorded calls of insert_area
AreaCenterCells == {Cells[k] : k \in 1..AreaCenters}

\* HexMap::insert_area, appended to the history
RecordedInsertArea(center, radius, tile) ==
    /\ pc = "idle"
    /\ Len(history.log) < MaxOps
    /\ Range(CubeArea(center, radius)) \subseteq Universe
    /\ map' = HexMapInsertArea(map, center, radius, tile)
    /\ history' = [log |-> Append(history.log,
                                  [op |-> "insert_area", center |-> center,
                                   radius |-> radius, tile |-> tile]),
                   before |-> map]
    /\ UNCHANGED << pc, start, destination, cost_fn, pathfinder, result, shape, invocations,
                    selected >>

NextMap ==
    \/ \E coords \in Universe, tile \in PathTestTile : RecordedInsert(coords, tile)
    \/ \E center \in AreaCenterCells, radius \in 0..MaxAreaRadius, tile \in PathTestTile :
          RecordedInsertArea(center, radius, tile)

SpecMap == Init /\ [][NextMap]_vars

(***************************************************************************)
(* Calls of the operations of PathMap                                      *)
(***************************************************************************)
PathCells == {Cells[k] : k \in 1..PathMapCells}

\* what a PathMap holds for a coordinate: nothing, or a node in one of the
\* two sets
NodeStates ==
    {[set |-> "none"]} \cup
    [set : {"to_search", "searched"},
     node : [total_cost : 0..MaxNodeCost,
             prev_coords : {None, Some(Cells[1])}]]

\* the PathMap that holds st[c] for each coordinate c
PathMapOf(st) ==
    [coords_to_search |-> {c \in DOMAIN st : st[c].set = "to_search"},
     searched_coords |-> {c \in DOMAIN st : st[c].set = "searched"},
     nodes |-> [c \in {x \in DOMAIN st : st[x].set # "none"} |-> st[c].node]]

\* the PathMaps the operations are called on: those add_node, insert_node and
\* set_coords_searched build over PathCells
PathMaps == {PathMapOf(st) : st \in [PathCells -> NodeStates]}

\* PathMap::eval_move
EvalMoveCall ==
    /\ shape = NoCall
    /\ \E pm \in PathMaps, source \in PathCells, dest \in PathCells,
          cost \in 0..(MaxNodeCost + 1) :
          shape' = [op |-> "PathMap::eval_move", pm |-> pm, source |-> source,
                    dest |-> dest, cost |-> cost,
                    output |-> eval_move(pm, source, dest, cost), returned |-> TRUE]
    /\ UNCHANGED mapVars

\* PathMap::insert_node
InsertNodeCall ==
    /\ shape = NoCall
    /\ \E pm \in PathMaps, coords \in PathCells, total_cost \in 0..(MaxNodeCost + 1) :
          LET new_node == [total_cost |-> total_cost, prev_coords |-> None]
          IN  shape' = [op |-> "PathMap::insert_node", pm |-> pm, coords |-> coords,
                        new_node |-> new_node,
                        output |-> insert_node(pm, coords, new_node), returned |-> TRUE]
    /\ UNCHANGED mapVars

NextPathMap == EvalMoveCall \/ InsertNodeCall

SpecPathMap == Init /\ [][NextPathMap]_vars

(***************************************************************************)
(* Calls of the shape generators                                           *)
(***************************************************************************)
\* the coordinates the generators are called with
AxialSpace ==
    {c \in [q : (-CoordRadius)..CoordRadius, r : (-CoordRadius)..CoordRadius] :
        AxialDistance(AxialZERO, c) <= CoordRadius}

CubeSpace == {CubeFromAxial(c) : c \in AxialSpace}

LineOps == {"CubeCoords::line", "AxialCoords::line"}

\* the cube coordinates CubeCoords::line works on: AxialCoords::line passes
\* a.into() and b.into()
LineFrom == IF shape.op = "AxialCoords::line" THEN CubeFromAxial(shape.a) ELSE shape.a
LineTo == IF shape.op = "AxialCoords::line" THEN CubeFromAxial(shape.b) ELSE shape.b

\* CubeCoords::line up to its loop
LineCall ==
    /\ shape = NoCall
    /\ \E a \in CubeSpace, b \in CubeSpace :
          shape' = [op |-> "CubeCoords::line", a |-> a, b |-> b,
                    tiles |-> distance(a, b) + 1, i |-> 0,
                    output |-> << >>, returned |-> FALSE]
    /\ UNCHANGED mapVars

\* AxialCoords::line up to the loop of CubeCoords::line
AxialLineCall ==
    /\ shape = NoCall
    /\ \E a \in AxialSpace, b \in AxialSpace :
          shape' = [op |-> "AxialCoords::line", a |-> a, b |-> b,
                    tiles |-> distance(CubeFromAxial(a), CubeFromAxial(b)) + 1, i |-> 0,
                    output |-> << >>, returned |-> FALSE]
    /\ UNCHANGED mapVars

\* an iteration of the loop of CubeCoords::line
LineStep ==
    /\ shape.op \in LineOps
    /\ shape.i < shape.tiles
    /\ \E err \in F32Errors \X F32Errors \X F32Errors :
          LET t == F32Div(shape.i, shape.tiles - 1)
          IN  shape' = [shape EXCEPT !.output = Append(@, CubeLerp(LineFrom, LineTo, t, err)),
                                     !.i = @ + 1]
    /\ UNCHANGED mapVars

\* the loop is over: CubeCoords::line returns its output, AxialCoords::line
\* the output converted to axial coordinates
LineReturn ==
    /\ shape.op \in LineOps
    /\ shape.i = shape.tiles
    /\ ~shape.returned
    /\ shape' = [shape EXCEPT
                    !.returned = TRUE,
                    !.output = IF shape.op = "AxialCoords::line"
                               THEN [k \in 1..Len(@) |-> AxialFromCube(@[k])]
                               ELSE @]
    /\ UNCHANGED mapVars

\* CubeCoords::ring
CubeRingCall ==
    /\ shape = NoCall
    /\ \E center \in CubeSpace, radius \in 0..MaxRingRadius :
          shape' = [op |-> "CubeCoords::ring", center |-> center, radius |-> radius,
                    output |-> CubeRing(center, radius), returned |-> TRUE]
    /\ UNCHANGED mapVars

\* AxialCoords::ring of src/coords/axial.rs
AxialRingCall ==
    /\ shape = NoCall
    /\ \E center \in AxialSpace, radius \in 0..MaxRingRadius :
          shape' = [op |-> "AxialCoords::ring", center |-> center, radius |-> radius,
                    output |-> AxialRing(center, radius), returned |-> TRUE]
    /\ UNCHANGED mapVars

\* AxialCoords::ring of src/coords/axial_coords.rs
AxialRingViaCubeCall ==
    /\ shape = NoCall
    /\ \E center \in AxialSpace, radius \in 0..MaxRingRadius :
          shape' = [op |-> "AxialCoords::ring via CubeCoords::ring",
                    center |-> center, radius |-> radius,
                    output |-> AxialRingViaCube(center, radius), returned |-> TRUE]
    /\ UNCHANGED mapVars

\* CubeCoords::area
CubeAreaCall ==
    /\ shape = NoCall
    /\ \E center \in CubeSpace, radius \in 0..MaxRingRadius :
          shape' = [op |-> "CubeCoords::area", center |-> center, radius |-> radius,
                    output |-> CubeArea(center, radius), returned |-> TRUE]
    /\ UNCHANGED mapVars

\* AxialAdjacent with the direction (1, -1) pushed twice and (1, 0) left out
AxialAdjacent_RepeatsDirection(center) ==
    << AxialAdd(center, AxialNew(0, -1)),
       AxialAdd(center, AxialNew(1, -1)),
       AxialAdd(center, AxialNew(1, -1)),
       AxialAdd(center, AxialNew(0, 1)),
       AxialAdd(center, AxialNew(-1, 1)),
       AxialAdd(center, AxialNew(-1, 0)) >>

\* AxialCoords::adjacent
AxialAdjacent(center) ==
    << AxialAdd(center, AxialNew(0, -1)),
       AxialAdd(center, AxialNew(1, -1)),
       AxialAdd(center, AxialNew(1, 0)),
       AxialAdd(center, AxialNew(0, 1)),
       AxialAdd(center, AxialNew(-1, 1)),
       AxialAdd(center, AxialNew(-1, 0)) >>

\* CubeCoords::adjacent
CubeAdjacentCall ==
    /\ shape = NoCall
    /\ \E center \in CubeSpace :
          shape' = [op |-> "CubeCoords::adjacent", center |-> center,
                    output |-> CubeAdjacent(center), returned |-> TRUE]
    /\ UNCHANGED mapVars

\* AxialCoords::adjacent
AxialAdjacentCall ==
    /\ shape = NoCall
    /\ \E center \in AxialSpace :
          shape' = [op |-> "AxialCoords::adjacent", center |-> center,
                    output |-> AxialAdjacent(center), returned |-> TRUE]
    /\ UNCHANGED mapVars

\* CubeCoords::distance
DistanceCall ==
    /\ shape = NoCall
    /\ \E a \in CubeSpace, b \in CubeSpace :
          shape' = [op |-> "CubeCoords::distance", a |-> a, b |-> b,
                    output |-> distance(a, b), returned |-> TRUE]
    /\ UNCHANGED mapVars

\* AxialCoords::distance
AxialDistanceCall ==
    /\ shape = NoCall
    /\ \E a \in AxialSpace, b \in AxialSpace :
          shape' = [op |-> "AxialCoords::distance", a |-> a, b |-> b,
                    output |-> AxialDistance(a, b), returned |-> TRUE]
    /\ UNCHANGED mapVars

\* the integer pairs and the valid integer triples the algebra is called with
AxialPairs == [q : (-CoordRadius)..CoordRadius, r : (-CoordRadius)..CoordRadius]

ValidCubes ==
    {c \in [q : (-CoordRadius)..CoordRadius, r : (-CoordRadius)..CoordRadius,
            s : (-(2 * CoordRadius))..(2 * CoordRadius)] : is_valid(c)}

\* CubeCoords::from(AxialCoords), and AxialCoords::from of the result
AxialToCubeCall ==
    /\ shape = NoCall
    /\ \E value \in AxialPairs :
          shape' = [op |-> "CubeCoords::from(AxialCoords)", value |-> value,
                    output |-> CubeFromAxial(value),
                    back |-> AxialFromCube(CubeFromAxial(value)), returned |-> TRUE]
    /\ UNCHANGED mapVars

\* AxialCoords::from(CubeCoords), and CubeCoords::from of the result
CubeToAxialCall ==
    /\ shape = NoCall
    /\ \E value \in ValidCubes :
          shape' = [op |-> "AxialCoords::from(CubeCoords)", value |-> value,
                    output |-> AxialFromCube(value),
                    back |-> CubeFromAxial(AxialFromCube(value)), returned |-> TRUE]
    /\ UNCHANGED mapVars

\* the components CubeCoords::new is called with
Components == (-CoordRadius)..CoordRadius

\* CubeCoords::new
CubeNewCall ==
    /\ shape = NoCall
    /\ \E q \in Components, r \in Components, s \in Components :
          shape' = [op |-> "CubeCoords::new", q |-> q, r |-> r, s |-> s,
                    output |-> CubeNew(q, r, s), returned |-> TRUE]
    /\ UNCHANGED mapVars

\* CubeCoords::round on the exact fractions nq/den, nr/den and -(nq+nr)/den
RoundCall ==
    /\ shape = NoCall
    /\ \E nq \in (-MaxNumerator)..MaxNumerator,
          nr \in (-MaxNumerator)..MaxNumerator, den \in 1..MaxDenominator :
          LET q == [num |-> nq, den |-> den]
              r == [num |-> nr, den |-> den]
              s == [num |-> (-nq) - nr, den |-> den]
          IN  shape' = [op |-> "CubeCoords::round", q |-> q, r |-> r, s |-> s,
                        output |-> CubeRound(q, r, s), returned |-> TRUE]
    /\ UNCHANGED mapVars

\* CubeCoords::round on the exact fractions nq/den, nr/den and ns/den, whatever
\* their sum
RoundTripleCall ==
    /\ shape = NoCall
    /\ \E nq \in (-MaxNumerator)..MaxNumerator, nr \in (-MaxNumerator)..MaxNumerator,
          ns \in (-MaxNumerator)..MaxNumerator, den \in 1..MaxDenominator :
          LET q == [num |-> nq, den |-> den]
              r == [num |-> nr, den |-> den]
              s == [num |-> ns, den |-> den]
          IN  shape' = [op |-> "CubeCoords::round of any triple", q |-> q, r |-> r, s |-> s,
                        output |-> CubeRound(q, r, s), returned |-> TRUE]
    /\ UNCHANGED mapVars

\* Add for CubeCoords
CubeAddCall ==
    /\ shape = NoCall
    /\ \E a \in CubeSpace, b \in CubeSpace :
          shape' = [op |-> "CubeCoords::add", a |-> a, b |-> b,
                    output |-> CubeAdd(a, b), returned |-> TRUE]
    /\ UNCHANGED mapVars

\* Sub for CubeCoords
CubeSubCall ==
    /\ shape = NoCall
    /\ \E a \in CubeSpace, b \in CubeSpace :
          shape' = [op |-> "CubeCoords::sub", a |-> a, b |-> b,
                    output |-> CubeSub(a, b), returned |-> TRUE]
    /\ UNCHANGED mapVars

\* Neg for CubeCoords
CubeNegCall ==
    /\ shape = NoCall
    /\ \E a \in CubeSpace :
          shape' = [op |-> "CubeCoords::neg", a |-> a,
                    output |-> CubeNeg(a), returned |-> TRUE]
    /\ UNCHANGED mapVars

\* Mul<isize> for CubeCoords (Mul<usize> casts and calls it)
CubeMulCall ==
    /\ shape = NoCall
    /\ \E a \in CubeSpace, rhs \in (-MaxRingRadius)..MaxRingRadius :
          shape' = [op |-> "CubeCoords::mul", a |-> a, rhs |-> rhs,
                    output |-> CubeMul(a, rhs), returned |-> TRUE]
    /\ UNCHANGED mapVars

NextShapes ==
    \/ LineCall
    \/ AxialLineCall
    \/ LineStep
    \/ LineReturn
    \/ CubeRingCall
    \/ AxialRingCall
    \/ AxialRingViaCubeCall
    \/ CubeAreaCall
    \/ CubeAdjacentCall
    \/ AxialAdjacentCall
    \/ DistanceCall
    \/ AxialDistanceCall
    \/ AxialToCubeCall
    \/ CubeToAxialCall
    \/ CubeNewCall
    \/ RoundCall
    \/ RoundTripleCall
    \/ CubeAddCall
    \/ CubeSubCall
    \/ CubeNegCall
    \/ CubeMulCall

SpecShapes == Init /\ [][NextShapes]_vars

(***************************************************************************)
(* Reference notions the properties are stated with.  They use the metric  *)
(* distance(a, b) = 1 for adjacency, not the adjacent() enumeration.       *)
(***************************************************************************)
Populated == DOMAIN map

\* a hop u -> c of a walk: adjacent, and into a populated coordinate
IsHop(m, u, c) == c \in DOMAIN m /\ distance(u, c) = 1

\* the coordinates reachable by at most k more hops from those of reached
RECURSIVE ReachableFrom(_, _, _)
ReachableFrom(m, reached, k) ==
    IF k = 0 THEN reached
    ELSE ReachableFrom(m,
             reached \cup {c \in DOMAIN m : \E u \in reached : IsHop(m, u, c)},
             k - 1)

Connected(m, s, d) == d \in ReachableFrom(m, {s}, Cardinality(DOMAIN m))

Min(S) == CHOOSE x \in S : \A y \in S : x <= y

\* Bellman-Ford: best is the set of pairs << c, least summed cost of the walks
\* seen so far from the start to c >>; k more rounds of one-hop extension,
\* fewer if a round changes nothing
RECURSIVE LeastCosts(_, _, _, _)
LeastCosts(m, f, best, k) ==
    IF k = 0 THEN best
    ELSE LET cands(c) == {p[2] : p \in {x \in best : x[1] = c}}
                             \cup {p[2] + Apply(f, p[1], c, m) :
                                      p \in {x \in best : IsHop(m, x[1], c)}}
             seen == {p[1] : p \in best} \cup
                         {c \in DOMAIN m : \E p \in best : IsHop(m, p[1], c)}
             extended == {<< c, Min(cands(c)) >> : c \in seen}
         IN  IF extended = best THEN best ELSE LeastCosts(m, f, extended, k - 1)

\* the least summed cost of a walk from s to d, as a set: empty if there is none
LeastCost(m, f, s, d) ==
    {p[2] : p \in {x \in LeastCosts(m, f, {<< s, 0 >>}, Cardinality(DOMAIN m)) : x[1] = d}}

\* the summed cost of the hops of a path: start to its first element, then
\* each element to the next
RECURSIVE PathCost(_, _, _, _)
PathCost(m, f, from, path) ==
    IF path = << >> THEN 0
    ELSE Apply(f, from, Head(path), m) + PathCost(m, f, Head(path), Tail(path))

Returned == pc = "done" /\ result # None

(***************************************************************************)
(* C1: whenever find_path returns a path, the summed cost of its hops is   *)
(* at most the summed cost of every sequence of pairwise adjacent          *)
(* populated coordinates from start to destination (costs non-negative).   *)
(***************************************************************************)
C1_LeastCostPath ==
    Returned =>
        LeastCost(map, cost_fn, start, destination)
            = {PathCost(map, cost_fn, start, result.some)}

\* a returned path of three hops that is cheaper than a populated two-hop route
C1_Witness ==
    /\ Returned
    /\ Len(result.some) = 3
    /\ \E x \in Populated :
          /\ distance(start, x) = 1
          /\ distance(x, destination) = 1
          /\ PathCost(map, cost_fn, start, << x, destination >>)
                 > PathCost(map, cost_fn, start, result.some)

(***************************************************************************)
(* C2: find_path(map, start, start, f) returns a present, empty sequence,  *)
(* on every map, the empty one and those without a tile at start included. *)
(***************************************************************************)
C2_StartIsEnd ==
    (pc = "done" /\ start = destination) => result = Some(<< >>)

C2_Witness ==
    /\ pc = "done"
    /\ start = destination
    /\ start \notin Populated
    /\ Populated # {}
    /\ result = Some(<< >>)

(***************************************************************************)
(* C3: with start populated and start # destination, find_path returns     *)
(* none exactly when no sequence of populated, pairwise adjacent           *)
(* coordinates leads from start to destination.                            *)
(***************************************************************************)
C3_NoneIffDisconnected ==
    (pc = "done" /\ start \in Populated /\ start # destination) =>
        (result = None <=> ~Connected(map, start, destination))

\* two populated tiles without a populated connection yield none
C3_Witness ==
    /\ pc = "done"
    /\ start \in Populated
    /\ destination \in Populated
    /\ start # destination
    /\ ~Connected(map, start, destination)
    /\ result = None

(***************************************************************************)
(* C4 as stated: if destination has no stored tile, find_path returns none *)
(* for every start.                                                        *)
(***************************************************************************)
C4_Original ==
    (pc = "done" /\ destination \notin Populated) => result = None

(***************************************************************************)
(* C4 amended: if destination has no stored tile and differs from start,   *)
(* find_path returns none.                                                 *)
(***************************************************************************)
C4_UnpopulatedDestination ==
    (pc = "done" /\ destination \notin Populated /\ destination # start) => result = None

\* an unpopulated destination next to a populated, expanded start
C4_Witness ==
    /\ pc = "done"
    /\ destination \notin Populated
    /\ start \in Populated
    /\ distance(start, destination) = 1
    /\ start \in pathfinder.searched_coords
    /\ result = None

NoDuplicates(seq) == \A i, j \in 1..Len(seq) : i # j => seq[i] # seq[j]

(***************************************************************************)
(* C5: a path returned for start # destination does not contain start,     *)
(* ends in destination, begins next to start, has consecutive elements at  *)
(* distance exactly 1, only populated elements, and no repeated element.   *)
(***************************************************************************)
C5_PathShape ==
    (Returned /\ start # destination) =>
        LET path == result.some
        IN  /\ path # << >>
            /\ \A k \in 1..Len(path) : path[k] # start
            /\ path[Len(path)] = destination
            /\ distance(start, path[1]) = 1
            /\ \A k \in 1..(Len(path) - 1) : distance(path[k], path[k + 1]) = 1
            /\ \A k \in 1..Len(path) : path[k] \in Populated
            /\ NoDuplicates(path)

C5_Witness ==
    /\ Returned
    /\ start # destination
    /\ Len(result.some) >= 3
    /\ destination \in pathfinder.coords_to_search

\* every coordinate within distance radius of center is populated
RegionPopulated(center, radius) ==
    \A c \in Universe : distance(center, c) <= radius => c \in Populated

\* the cost function returns the same positive cost for every hop
UniformPositiveCost ==
    /\ cost_fn = "tile_cost"
    /\ \A c, d \in Populated : map[c] = map[d]

InRegion(center, radius, c) == distance(center, c) <= radius

(***************************************************************************)
(* C6: on a map whose hexagonal region is fully populated, with the same   *)
(* positive cost for every hop, find_path between two coordinates of the   *)
(* region returns exactly distance(start, destination) elements, and       *)
(* [destination] for an adjacent destination.                              *)
(***************************************************************************)
C6_StraightPath ==
    \A center \in Universe, radius \in 0..MaxAreaRadius :
        ( /\ pc = "done"
          /\ UniformPositiveCost
          /\ RegionPopulated(center, radius)
          /\ InRegion(center, radius, start)
          /\ InRegion(center, radius, destination) ) =>
            /\ result # None
            /\ Len(result.some) = distance(start, destination)
            /\ distance(start, destination) = 1 => result.some = << destination >>

\* a filled region of radius 1 crossed from rim to opposite rim
C6_Witness ==
    /\ pc = "done"
    /\ UniformPositiveCost
    /\ RegionPopulated(CubeZERO, 1)
    /\ distance(start, destination) = 2
    /\ InRegion(CubeZERO, 1, start)
    /\ InRegion(CubeZERO, 1, destination)
    /\ result # None
    /\ Len(result.some) = 2

IsCubeCoords(c) == DOMAIN c = {"q", "r", "s"}

LineReturned == shape.op \in LineOps /\ shape.returned

\* the k-th interpolated point of the line in progress lies half-way between
\* two lattice values on the q axis or on the r axis
IsRoundingTie(k) ==
    LET n == shape.tiles - 1
        half(x, y) == (2 * (x * (n - k) + y * k)) % (2 * n) = n
    IN  n > 0 /\ (half(LineFrom.q, LineTo.q) \/ half(LineFrom.r, LineTo.r))

(***************************************************************************)
(* C7: for valid cube coordinates a # b, CubeCoords::line(a, b) returns    *)
(* distance(a, b) + 1 valid coordinates, the first a, the last b, every    *)
(* consecutive pair at distance exactly 1, rounding ties included.         *)
(***************************************************************************)
C7_Line ==
    (shape.op = "CubeCoords::line" /\ shape.returned /\ shape.a # shape.b) =>
        LET line == shape.output
        IN  /\ Len(line) = distance(shape.a, shape.b) + 1
            /\ \A k \in 1..Len(line) : IsCubeCoords(line[k]) /\ is_valid(line[k])
            /\ line[1] = shape.a
            /\ line[Len(line)] = shape.b
            /\ \A k \in 1..(Len(line) - 1) : distance(line[k], line[k + 1]) = 1

\* a returned line one of whose interpolated points was a rounding tie
C7_Witness ==
    /\ shape.op = "CubeCoords::line"
    /\ shape.returned
    /\ shape.a # shape.b
    /\ \E k \in 1..(shape.tiles - 2) : IsRoundingTie(k)
    /\ Len(shape.output) = distance(shape.a, shape.b) + 1

(***************************************************************************)
(* C8: for every coordinate a, the origin or not, line(a, a) returns the   *)
(* single-element sequence [a].                                            *)
(***************************************************************************)
C8_LineOfPoint ==
    (LineReturned /\ shape.a = shape.b) => shape.output = << shape.a >>

RingShape(center, radius, ring, dist(_, _)) ==
    IF radius = 0 THEN ring = << center >>
    ELSE /\ Len(ring) = 6 * radius
         /\ \A k \in 1..Len(ring) : ring[k] # center /\ dist(center, ring[k]) = radius
         /\ NoDuplicates(ring)

(***************************************************************************)
(* C9: for every valid cube center, the origin or not, and every radius r, *)
(* CubeCoords::ring(center, 0) is [center] and CubeCoords::ring(center, r) *)
(* for r > 0 has exactly 6r elements, none equal to center, all at         *)
(* distance exactly r from center, without duplicates.                     *)
(***************************************************************************)
C9_CubeRing ==
    shape.op = "CubeCoords::ring" =>
        RingShape(shape.center, shape.radius, shape.output, distance)

(***************************************************************************)
(* C10: the directly implemented AxialCoords::ring(center, r) returns      *)
(* [center] for r = 0 and, for r > 0, exactly 6r distinct coordinates,     *)
(* none equal to center, each at axial distance exactly r from center.     *)
(***************************************************************************)
C10_AxialRing ==
    shape.op = "AxialCoords::ring" =>
        RingShape(shape.center, shape.radius, shape.output, AxialDistance)

\* a ring of radius 2 or more around a center that is not the origin
C10_Witness ==
    /\ shape.op = "AxialCoords::ring"
    /\ shape.center # AxialZERO
    /\ shape.radius >= 2
    /\ Len(shape.output) = 6 * shape.radius

(***************************************************************************)
(* C11: for every valid cube center and every radius r >= 0,               *)
(* CubeCoords::area(center, r) contains exactly the coordinates of         *)
(* ring(center, i) for every i from 0 to r inclusive, has exactly          *)
(* 3r^2 + 3r + 1 elements without duplicates, and for r = 0 is the center  *)
(* tile alone.                                                             *)
(***************************************************************************)
C11_CubeArea ==
    shape.op = "CubeCoords::area" =>
        LET r == shape.radius
            area == shape.output
        IN  /\ Range(area) = UNION {Range(CubeRing(shape.center, i)) : i \in 0..r}
            /\ Len(area) = 3 * r * r + 3 * r + 1
            /\ NoDuplicates(area)
            /\ r = 0 => area = << shape.center >>

\* the axial lattice around the coordinates of the model, wide enough to hold
\* every coordinate within distance 2 of them
AxialLattice ==
    [q : (-(CoordRadius + 2))..(CoordRadius + 2), r : (-(CoordRadius + 2))..(CoordRadius + 2)]

CubeLattice == {CubeFromAxial(c) : c \in AxialLattice}

(***************************************************************************)
(* C12: adjacent(center) returns exactly 6 distinct coordinates, precisely *)
(* the coordinates at distance 1 from center, in a direction order that    *)
(* does not depend on center; AxialCoords::adjacent(c) is element by       *)
(* element the axial image of CubeCoords::adjacent of the cube form of c.  *)
(***************************************************************************)
C12_Adjacent ==
    /\ shape.op = "CubeCoords::adjacent" =>
          LET out == shape.output
          IN  /\ Len(out) = 6
              /\ NoDuplicates(out)
              /\ Range(out) = {c \in CubeLattice : distance(shape.center, c) = 1}
              /\ \A k \in 1..6 :
                    CubeSub(out[k], shape.center) = CubeSub(CubeAdjacent(CubeZERO)[k], CubeZERO)
    /\ shape.op = "AxialCoords::adjacent" =>
          LET out == shape.output
              cube == CubeAdjacent(CubeFromAxial(shape.center))
          IN  /\ Len(out) = 6
              /\ NoDuplicates(out)
              /\ Range(out) = {c \in AxialLattice : AxialDistance(shape.center, c) = 1}
              /\ \A k \in 1..6 :
                    AxialSub(out[k], shape.center) = AxialSub(AxialAdjacent(AxialZERO)[k], AxialZERO)
              /\ \A k \in 1..6 : out[k] = AxialFromCube(cube[k])

\* the neighbours of an axial coordinate other than the origin
C12_Witness ==
    /\ shape.op = "AxialCoords::adjacent"
    /\ shape.center # AxialZERO
    /\ Len(shape.output) = 6

(***************************************************************************)
(* C13: for all valid cube coordinates a and b, distance(a, b) equals      *)
(* distance(b, a), is not negative, and is 0 if and only if a = b; the     *)
(* axial distance of two axial coordinates equals the cube distance of     *)
(* their cube conversions.                                                 *)
(***************************************************************************)
C13_Distance ==
    /\ shape.op = "CubeCoords::distance" =>
          /\ shape.output = distance(shape.b, shape.a)
          /\ shape.output >= 0
          /\ shape.output = 0 <=> shape.a = shape.b
    /\ shape.op = "AxialCoords::distance" =>
          /\ shape.output = distance(CubeFromAxial(shape.a), CubeFromAxial(shape.b))
          /\ shape.output = AxialDistance(shape.b, shape.a)
          /\ shape.output >= 0
          /\ shape.output = 0 <=> shape.a = shape.b

\* the distance of two cube coordinates that differ on all three axes
C13_Witness ==
    /\ shape.op = "CubeCoords::distance"
    /\ shape.a.q # shape.b.q /\ shape.a.r # shape.b.r /\ shape.a.s # shape.b.s
    /\ shape.output >= 2

(***************************************************************************)
(* C14: for every integer pair (q, r), converting the axial coordinate to  *)
(* cube and back yields (q, r) again, and the cube coordinate in between   *)
(* is (q, r, -q-r) with q + r + s = 0; for every valid cube coordinate,    *)
(* converting to axial and back yields the same cube coordinate.           *)
(***************************************************************************)
C14_Conversion ==
    /\ shape.op = "CubeCoords::from(AxialCoords)" =>
          /\ shape.output.q = shape.value.q
          /\ shape.output.r = shape.value.r
          /\ shape.output.s = (-shape.value.q) - shape.value.r
          /\ shape.output.q + shape.output.r + shape.output.s = 0
          /\ shape.back = shape.value
    /\ shape.op = "AxialCoords::from(CubeCoords)" =>
          shape.back = shape.value

\* a round trip of an axial coordinate with two different components, none 0
C14_Witness ==
    /\ shape.op = "CubeCoords::from(AxialCoords)"
    /\ shape.value.q # 0 /\ shape.value.r # 0 /\ shape.value.q # shape.value.r
    /\ shape.back = shape.value

(***************************************************************************)
(* C15: CubeCoords::new(q, r, s) panics exactly when q + r + s is not 0,   *)
(* and otherwise returns the coordinate with those three components.       *)
(***************************************************************************)
C15_New ==
    shape.op = "CubeCoords::new" =>
        /\ shape.output = InvalidCoordinate <=> shape.q + shape.r + shape.s # 0
        /\ shape.q + shape.r + shape.s = 0 =>
              shape.output = [q |-> shape.q, r |-> shape.r, s |-> shape.s]

\* a construction from three components that do not sum to 0
C15_Witness ==
    /\ shape.op = "CubeCoords::new"
    /\ shape.q + shape.r + shape.s # 0
    /\ shape.output = InvalidCoordinate

\* the three independently rounded values of the call of round
Rounded == [q |-> F32Round(shape.q), r |-> F32Round(shape.r), s |-> F32Round(shape.s)]

\* the absolute rounding error of an axis, in units of 1/den
RoundingError(axis) ==
    LET x == shape[axis]
    IN  Abs(x.num - Rounded[axis] * x.den)

Axes == {"q", "r", "s"}

(***************************************************************************)
(* C16: for every fractional triple with qf + rf + sf = 0, round returns   *)
(* the three independently rounded values when they sum to zero; otherwise *)
(* it recomputes exactly one axis as the negated sum of the other two,     *)
(* that axis has an absolute rounding error at least as large as each of   *)
(* the other two, and the other two axes keep their rounded values.        *)
(***************************************************************************)
C16_Round ==
    shape.op = "CubeCoords::round" =>
        IF Rounded.q + Rounded.r + Rounded.s = 0
        THEN shape.output = Rounded
        ELSE \E axis \in Axes :
                /\ IsCubeCoords(shape.output)
                /\ \A other \in Axes \ {axis} :
                      /\ shape.output[other] = Rounded[other]
                      /\ RoundingError(axis) >= RoundingError(other)
                /\ shape.output[axis] # Rounded[axis]
                /\ shape.output.q + shape.output.r + shape.output.s = 0

\* a call whose rounded values do not sum to zero and whose r axis is recomputed
C16_Witness ==
    /\ shape.op = "CubeCoords::round"
    /\ Rounded.q + Rounded.r + Rounded.s # 0
    /\ shape.output.r # Rounded.r
    /\ shape.output.q + shape.output.r + shape.output.s = 0

\* the history is a sequence of insert operations
OnlyInserts == \A k \in 1..Len(history.log) : history.log[k].op = "insert"

\* the positions of the history that insert at coordinate c
InsertsAt(c) == {k \in 1..Len(history.log) : history.log[k].coords = c}

Max(S) == CHOOSE x \in S : \A y \in S : y <= x

LastOp == history.log[Len(history.log)]

(***************************************************************************)
(* C17: after any sequence of insert operations on a map created by new(), *)
(* the map holds exactly one entry per distinct coordinate ever inserted,  *)
(* get(c) returns the tile most recently inserted at c and absence for     *)
(* every coordinate never inserted; an insert at a populated coordinate    *)
(* leaves the number of entries unchanged.                                 *)
(***************************************************************************)
C17_Inserts ==
    OnlyInserts =>
        /\ DOMAIN map = {history.log[k].coords : k \in 1..Len(history.log)}
        /\ \A c \in CubeLattice :
              HexMapGet(map, c) =
                  IF InsertsAt(c) = {} THEN None
                  ELSE Some(history.log[Max(InsertsAt(c))].tile)
        /\ (Len(history.log) > 0 /\ LastOp.coords \in DOMAIN history.before) =>
              Cardinality(DOMAIN map) = Cardinality(DOMAIN history.before)

\* an insert of a tile at a coordinate that held the other tile
C17_Witness ==
    /\ Len(history.log) >= 2
    /\ OnlyInserts
    /\ LastOp.coords \in DOMAIN history.before
    /\ history.before[LastOp.coords] # LastOp.tile
    /\ HexMapGet(map, LastOp.coords) = Some(LastOp.tile)

\* the filled hexagon: the coordinates within distance radius of center
FilledArea(center, radius) == {c \in CubeLattice : distance(center, c) <= radius}

(***************************************************************************)
(* C18: after insert_area(center, radius, tile) on any map, get(c) returns *)
(* tile for every coordinate c of area(center, radius), whatever was       *)
(* stored there, and every coordinate outside area(center, radius) keeps   *)
(* the tile or the absence it had before the call.                         *)
(***************************************************************************)
C18_InsertArea ==
    (Len(history.log) > 0 /\ LastOp.op = "insert_area") =>
        LET area == FilledArea(LastOp.center, LastOp.radius)
        IN  /\ \A c \in area : HexMapGet(map, c) = Some(LastOp.tile)
            /\ \A c \in CubeLattice \ area : HexMapGet(map, c) = HexMapGet(history.before, c)

\* the cube coordinates the call in shape has produced so far from valid inputs
CubeOutputs ==
    CASE shape.op \in {"CubeCoords::line", "CubeCoords::ring", "CubeCoords::area",
                       "CubeCoords::adjacent"} -> Range(shape.output)
      [] shape.op \in {"CubeCoords::round", "CubeCoords::from(AxialCoords)",
                       "CubeCoords::add", "CubeCoords::sub", "CubeCoords::neg",
                       "CubeCoords::mul"} -> {shape.output}
      [] shape.op = "CubeCoords::new" ->
            IF shape.q + shape.r + shape.s = 0 THEN {shape.output} ELSE {}
      [] OTHER -> {}

(***************************************************************************)
(* C19: every cube coordinate produced from valid inputs by new, round,    *)
(* the conversion from axial, addition, subtraction, negation, scalar      *)
(* multiplication, lerp, line, ring, area and adjacent satisfies           *)
(* q + r + s = 0.                                                          *)
(***************************************************************************)
C19_Valid ==
    \A c \in CubeOutputs : IsCubeCoords(c) /\ c.q + c.r + c.s = 0

\* a difference of two coordinates that is not the origin
C19_Witness ==
    /\ shape.op = "CubeCoords::sub"
    /\ shape.output # CubeZERO
    /\ shape.output.q + shape.output.r + shape.output.s = 0

(***************************************************************************)
(* C20: during a find_path call, every invocation cost_fn(source, dest,    *)
(* map) has dest adjacent to source and dest holding a stored tile in map, *)
(* and source is the frontier coordinate being expanded; the cost function *)
(* is never invoked with an unpopulated dest.                              *)
(***************************************************************************)
C20_Invocations ==
    \A k \in 1..Len(invocations) :
        LET call == invocations[k]
        IN  /\ distance(call.source, call.dest) = 1
            /\ HexMapGet(map, call.dest) # None
            /\ call.source \in DOMAIN pathfinder.nodes
            /\ call.source \in pathfinder.searched_coords
            /\ call.source = invocations[1].source

\* an expansion that invoked tile_cost for some neighbours and skipped the
\* unpopulated ones
C20_Witness ==
    /\ cost_fn = "tile_cost"
    /\ Len(invocations) \in 1..5
    /\ \E c \in Range(CubeAdjacent(invocations[1].source)) : c \notin DOMAIN map

(***************************************************************************)
(* C21: the choice among frontier coordinates of equal minimum total cost  *)
(* follows one deterministic rule: for a fixed map, start, destination and *)
(* cost function the search state determines the frontier coordinate that  *)
(* is selected next, so that two calls select in the same order and return *)
(* the same path.                                                          *)
(***************************************************************************)
C21_DeterministicSelection ==
    pc = "search" => Cardinality(NextNodes(pathfinder)) = 1

\* a find_path call is running or has returned
InFindPath == pc \in {"search", "done"}

(***************************************************************************)
(* C22: in every state reached during find_path, coords_to_search (the     *)
(* frontier) and searched_coords (the visited set) are disjoint, and a     *)
(* coordinate has a search node if and only if it is in exactly one of the *)
(* two sets.                                                               *)
(***************************************************************************)
C22_FrontierVisitedDisjoint ==
    InFindPath =>
        /\ pathfinder.coords_to_search \cap pathfinder.searched_coords = {}
        /\ DOMAIN pathfinder.nodes
               = pathfinder.coords_to_search \cup pathfinder.searched_coords

\* a search with two visited coordinates and two frontier coordinates
C22_Witness ==
    /\ pc = "search"
    /\ Cardinality(pathfinder.searched_coords) >= 2
    /\ Cardinality(pathfinder.coords_to_search) >= 2

\* a step of the loop of find_path
SearchStep == pc = "search" /\ pc' \in {"search", "done"}

(***************************************************************************)
(* C23: during find_path with non-negative costs a coordinate only moves   *)
(* from undiscovered to frontier to visited: a discovered coordinate stays *)
(* discovered, the recorded total cost of a frontier coordinate never      *)
(* increases, and a visited coordinate stays visited, never returns to the *)
(* frontier and keeps its total cost and predecessor, although eval_move   *)
(* compares candidates against visited coordinates too.                    *)
(***************************************************************************)
C23_Lifecycle ==
    [][SearchStep =>
          /\ \A c \in pathfinder.coords_to_search :
                /\ c \in pathfinder'.coords_to_search \cup pathfinder'.searched_coords
                /\ c \in DOMAIN pathfinder'.nodes
                /\ pathfinder'.nodes[c].total_cost <= pathfinder.nodes[c].total_cost
          /\ \A c \in pathfinder.searched_coords :
                /\ c \in pathfinder'.searched_coords
                /\ c \notin pathfinder'.coords_to_search
                /\ c \in DOMAIN pathfinder'.nodes
                /\ pathfinder'.nodes[c] = pathfinder.nodes[c]]_vars

\* two adjacent populated coordinates are both visited: the expansion of the
\* later one evaluated a move into the earlier one
C23_Witness ==
    /\ pc = "search"
    /\ \E c, d \in pathfinder.searched_coords :
          /\ distance(c, d) = 1
          /\ c \in Populated
          /\ d \in Populated
          /\ pathfinder.nodes[d].prev_coords = Some(c)

\* what get_next_node may return in this state satisfies its contract
NextNodeContract ==
    \A next_coords \in NextNodes(pathfinder) :
        /\ next_coords = None <=> pathfinder.coords_to_search = {}
        /\ next_coords # None =>
              /\ next_coords.some \in pathfinder.coords_to_search
              /\ next_coords.some \notin pathfinder.searched_coords
              /\ \A c \in pathfinder.coords_to_search :
                    pathfinder.nodes[next_coords.some].total_cost
                        <= pathfinder.nodes[c].total_cost

(***************************************************************************)
(* C24: get_next_node returns none if and only if the frontier is empty;   *)
(* otherwise it returns a frontier coordinate, never a visited one, whose  *)
(* total cost is at most that of every other frontier coordinate; and it   *)
(* does not modify the search state: a loop iteration that only selects    *)
(* (and returns) leaves the PathMap as it was.                             *)
(***************************************************************************)
C24_GetNextNode ==
    /\ [](InFindPath => NextNodeContract)
    /\ [][(pc = "search" /\ pc' = "done") => pathfinder' = pathfinder]_vars

\* a frontier of coordinates of different total cost
C24_Witness ==
    /\ pc = "search"
    /\ \E c, d \in pathfinder.coords_to_search :
          pathfinder.nodes[c].total_cost < pathfinder.nodes[d].total_cost
    /\ \A next_coords \in NextNodes(pathfinder) :
          /\ next_coords # None
          /\ \A c \in pathfinder.coords_to_search :
                pathfinder.nodes[next_coords.some].total_cost <= pathfinder.nodes[c].total_cost

(***************************************************************************)
(* C25: evaluating a move from source to dest with a candidate cost: if    *)
(* dest has no node, a node with that cost and predecessor source is       *)
(* created and dest joins the frontier; if dest has a node and the         *)
(* candidate is strictly lower than its cost, cost and predecessor are     *)
(* replaced and the set membership of dest is unchanged; if the candidate  *)
(* is equal or higher, nothing changes.  Nodes and memberships of the      *)
(* other coordinates are untouched.                                        *)
(***************************************************************************)
C25_EvalMove ==
    shape.op = "PathMap::eval_move" =>
        LET pm == shape.pm
            out == shape.output
            dest == shape.dest
            candidate == [total_cost |-> shape.cost, prev_coords |-> Some(shape.source)]
            others == (DOMAIN pm.nodes) \ {dest}
        IN  /\ \A c \in others : c \in DOMAIN out.nodes /\ out.nodes[c] = pm.nodes[c]
            /\ out.searched_coords = pm.searched_coords
            /\ IF dest \notin DOMAIN pm.nodes
               THEN /\ DOMAIN out.nodes = (DOMAIN pm.nodes) \cup {dest}
                    /\ out.nodes[dest] = candidate
                    /\ out.coords_to_search = pm.coords_to_search \cup {dest}
               ELSE IF shape.cost < pm.nodes[dest].total_cost
                    THEN /\ DOMAIN out.nodes = DOMAIN pm.nodes
                         /\ out.nodes[dest] = candidate
                         /\ out.coords_to_search = pm.coords_to_search
                    ELSE out = pm

\* a strictly lower candidate for a coordinate of searched_coords
C25_Witness ==
    /\ shape.op = "PathMap::eval_move"
    /\ shape.dest \in shape.pm.searched_coords
    /\ shape.source # shape.dest
    /\ shape.cost < shape.pm.nodes[shape.dest].total_cost
    /\ shape.output.nodes[shape.dest].total_cost = shape.cost
    /\ shape.dest \in shape.output.searched_coords

(***************************************************************************)
(* C26: find_path terminates.  Every iteration of the loop that does not   *)
(* return moves a coordinate that was not yet in searched_coords into it,  *)
(* so no coordinate is selected for expansion twice; the loop body runs at *)
(* most (number of populated coordinates + 1) times; every call reaches    *)
(* its return; and the predecessor links trace_path follows from the       *)
(* destination end within as many steps as there are nodes.                *)
(***************************************************************************)
RECURSIVE Ancestor(_, _, _)
\* the coordinate k predecessor links before c, None past the end of the chain
Ancestor(pm, c, k) ==
    IF k = 0 \/ c = None THEN c
    ELSE Ancestor(pm, pm.nodes[c.some].prev_coords, k - 1)

ExpandedOnce ==
    (pc = "search" /\ pc' = "search") =>
        \E c \in pathfinder.coords_to_search :
            /\ c \notin pathfinder.searched_coords
            /\ pathfinder'.searched_coords = pathfinder.searched_coords \cup {c}
            /\ c \notin pathfinder'.coords_to_search

C26_Terminates ==
    /\ [](InFindPath => selected.iterations <= Cardinality(DOMAIN map) + 1)
    /\ []((pc = "done" /\ result # None) =>
             Ancestor(pathfinder, Some(destination),
                      Cardinality(DOMAIN pathfinder.nodes)) = None)
    /\ [][ExpandedOnce]_vars
    /\ (pc = "search" ~> pc = "done")

\* a call that returned a path of two or more steps after
\* (number of populated coordinates + 1) iterations
C26_Witness ==
    /\ pc = "done"
    /\ result # None
    /\ Len(result.some) >= 2
    /\ selected.iterations = Cardinality(DOMAIN map) + 1

(***************************************************************************)
(* C27: CubeCoords::round never reaches its RoundingFailure panic: for     *)
(* every finite fractional triple, whatever its sum, and for every         *)
(* interpolated triple of line, the output after the single-axis           *)
(* correction satisfies q + r + s = 0.                                     *)
(***************************************************************************)
RoundOps == {"CubeCoords::round", "CubeCoords::round of any triple"}

C27_RoundNeverFails ==
    /\ shape.op \in RoundOps =>
          /\ shape.output # RoundingFailure
          /\ IsCubeCoords(shape.output)
          /\ shape.output.q + shape.output.r + shape.output.s = 0
    /\ (shape.op \in LineOps /\ ~shape.returned) =>
          \A k \in 1..Len(shape.output) :
              /\ shape.output[k] # RoundingFailure
              /\ IsCubeCoords(shape.output[k])

\* a triple that does not sum to zero, whose rounded values do not either,
\* rounded to valid coordinates
C27_Witness ==
    /\ shape.op = "CubeCoords::round of any triple"
    /\ shape.q.num + shape.r.num + shape.s.num # 0
    /\ Rounded.q + Rounded.r + Rounded.s # 0
    /\ shape.output # RoundingFailure
    /\ shape.output.q + shape.output.r + shape.output.s = 0

\* the coordinates met by following at most k predecessor links from c, c first
RECURSIVE PredecessorChain(_, _, _)
PredecessorChain(pm, c, k) ==
    IF k = 0 THEN << >>
    ELSE LET prev_coords == pm.nodes[c].prev_coords
         IN  IF prev_coords = None THEN << c >>
             ELSE << c >> \o PredecessorChain(pm, prev_coords.some, k - 1)

(***************************************************************************)
(* C28: in every state of find_path, the start node has total cost 0 and   *)
(* no predecessor; every other discovered coordinate has a predecessor     *)
(* that is adjacent to it and has been expanded, and its total cost is the *)
(* predecessor's total cost plus cost_fn(predecessor, coordinate); and the *)
(* predecessor links from every discovered coordinate lead to start        *)
(* without meeting a coordinate twice.                                     *)
(***************************************************************************)
C28_PredecessorTree ==
    InFindPath =>
        LET pm == pathfinder
            n == Cardinality(DOMAIN pm.nodes)
        IN  /\ start \in DOMAIN pm.nodes
            /\ pm.nodes[start] = [total_cost |-> 0, prev_coords |-> None]
            /\ \A c \in (DOMAIN pm.nodes) \ {start} :
                  LET node == pm.nodes[c]
                  IN  /\ node.prev_coords # None
                      /\ node.prev_coords.some \in pm.searched_coords
                      /\ node.prev_coords.some \in DOMAIN pm.nodes
                      /\ distance(node.prev_coords.some, c) = 1
                      /\ node.total_cost =
                            pm.nodes[node.prev_coords.some].total_cost
                            + Apply(cost_fn, node.prev_coords.some, c, map)
            /\ \A c \in DOMAIN pm.nodes :
                  LET chain == PredecessorChain(pm, c, n + 1)
                  IN  /\ Len(chain) <= n
                      /\ chain[Len(chain)] = start
                      /\ NoDuplicates(chain)

\* a search in progress from a populated start, with a discovered coordinate
\* whose predecessor chain holds three coordinates or more
C28_Witness ==
    /\ pc = "search"
    /\ start \in DOMAIN map
    /\ pathfinder.coords_to_search # {}
    /\ \E c \in DOMAIN pathfinder.nodes :
          Len(PredecessorChain(pathfinder, c, Cardinality(DOMAIN pathfinder.nodes) + 1)) >= 3

\* an iteration of find_path's loop body that follows an earlier one
LaterSelection ==
    /\ pc = "search"
    /\ selected.total_cost # None
    /\ selected'.iterations = selected.iterations + 1

\* the coordinates the loop of the call has selected so far: the expanded ones
\* and, when the call returned a path, the destination
Selections ==
    pathfinder.searched_coords \cup (IF Returned THEN {destination} ELSE {})

\* the node of a coordinate is as it was when the coordinate was selected: an
\* iteration changes neither the node of the coordinate it selects nor the
\* node of a coordinate selected before
SelectedNodesKept ==
    pc = "search" =>
        \A c \in pathfinder'.searched_coords \cup (IF pc' = "done" THEN {destination} ELSE {}) :
            c \in DOMAIN pathfinder.nodes => pathfinder'.nodes[c] = pathfinder.nodes[c]

(***************************************************************************)
(* C29: during find_path, every coordinate the loop selects has a total    *)
(* cost at least that of the coordinate selected before it, and the total  *)
(* cost of a coordinate at the moment it is selected is the least summed   *)
(* cost of the walks from start to it through populated coordinates: the   *)
(* node is never changed from its selection on, and when the call returns  *)
(* the total cost of every selected coordinate is that least cost.         *)
(***************************************************************************)
C29_SelectionOrder ==
    /\ [][LaterSelection => selected'.total_cost.some >= selected.total_cost.some]_vars
    /\ [][SelectedNodesKept]_vars
    /\ [](pc = "done" =>
             LET least == LeastCosts(map, cost_fn, {<< start, 0 >>}, Cardinality(DOMAIN map))
             IN  \A c \in Selections :
                     << c, pathfinder.nodes[c].total_cost >> \in least)

\* a call that returned after four iterations or more, the last of which
\* selected a coordinate of a total cost of 1.5 or more
C29_Witness ==
    /\ Returned
    /\ selected.iterations >= 4
    /\ selected.total_cost.some >= 3

(***************************************************************************)
(* C30: find_path does not require start to hold a tile.  Start has a node *)
(* in every state of the call, every other coordinate with a node is       *)
(* populated, and a call from an unpopulated start with a populated        *)
(* neighbour from which the populated destination is reachable returns a   *)
(* path: populated coordinates only, ending at the destination.            *)
(***************************************************************************)
C30_UnpopulatedStart ==
    /\ InFindPath =>
          /\ start \in DOMAIN pathfinder.nodes
          /\ (DOMAIN pathfinder.nodes) \ {start} \subseteq Populated
    /\ ( /\ pc = "done"
         /\ start \notin Populated
         /\ destination \in Populated
         /\ \E neighbor \in Populated :
               /\ distance(start, neighbor) = 1
               /\ Connected(map, neighbor, destination) ) =>
          /\ result # None
          /\ result.some # << >>
          /\ result.some[Len(result.some)] = destination
          /\ Range(result.some) \subseteq Populated

\* a path of two steps or more returned from an unpopulated start
C30_Witness ==
    /\ Returned
    /\ start \notin Populated
    /\ Len(result.some) >= 2
    /\ start \in DOMAIN pathfinder.nodes

====
